---- MODULE Spec2Model ----
(***************************************************************************)
(* State-machine model of the GRACC reporting script (src/src/index.ts and *)
(* the sibling revisions kept in src/unnamed/part_000): main, graccQuery,  *)
(* the fire-and-forget fs.writeFile calls, and the isoStringToDate helper. *)
(***************************************************************************)
EXTENDS Integers, Sequences, FiniteSets, TLC

\* JavaScript values that are not plain records of the program: every value
\* of the model is a record, so that any two of them can be compared.
Undefined == [undefined |-> TRUE]
Null == [null |-> TRUE]
\* NaN, and a number n.
NaN == [nan |-> TRUE]
Num(n) == [num |-> n]
\* The time value of an Invalid Date.
InvalidDate == [invalid |-> TRUE]

(***************************************************************************)
(* Date: a time value is [day, ms]: whole days since 1970-01-01 UTC and    *)
(* milliseconds within that day (ECMAScript's Day(t) and TimeWithinDay(t));*)
(* the pair keeps every intermediate within 32 bits.                       *)
(***************************************************************************)
MsPerHour == 60 * 60 * 1000
MsPerDay == 24 * MsPerHour

IsLeap(y) == (y % 4 = 0) /\ ((y % 100 # 0) \/ (y % 400 = 0))

DayFromYear(y) ==
  365 * (y - 1970) + ((y - 1969) \div 4) - ((y - 1901) \div 100) + ((y - 1601) \div 400)

MonthStart == <<0, 31, 59, 90, 120, 151, 181, 212, 243, 273, 304, 334>>

\* Day number of the first day of month mn (0-based, 0..11) of year y.
DayFromMonth(y, mn) ==
  DayFromYear(y) + MonthStart[mn + 1] + (IF IsLeap(y) /\ mn >= 2 THEN 1 ELSE 0)

\* ECMAScript MakeDay: month and date may lie outside their range and carry.
MakeDay(year, month, date) ==
  DayFromMonth(year + (month \div 12), month % 12) + date - 1

\* ECMAScript MakeTime on integral arguments.
MakeTime(hour, min, sec, ms) == hour * MsPerHour + min * 60000 + sec * 1000 + ms

\* ECMAScript MakeDate, normalised to the [day, ms] pair.
MakeDate(day, time) == [day |-> day + (time \div MsPerDay), ms |-> time % MsPerDay]

YearRange == 2015 .. 2030

YearFromTime(t) ==
  CHOOSE y \in YearRange : DayFromYear(y) <= t.day /\ t.day < DayFromYear(y + 1)

MonthFromTime(t) ==
  LET y == YearFromTime(t)
  IN  CHOOSE m \in 0 .. 11 :
        /\ DayFromMonth(y, m) <= t.day
        /\ (m = 11 \/ t.day < DayFromMonth(y, m + 1))

DateFromTime(t) == t.day - DayFromMonth(YearFromTime(t), MonthFromTime(t)) + 1

HourFromTime(t) == t.ms \div MsPerHour
MinFromTime(t) == (t.ms \div 60000) % 60
SecFromTime(t) == (t.ms \div 1000) % 60
MsFromTime(t) == t.ms % 1000

\* Date.prototype.setUTC*: each replaces one field and recomputes the time
\* value from the others; a NaN argument, or an Invalid Date, gives NaN.
SetUTCFullYear(t, y) ==
  IF t = InvalidDate \/ y = NaN THEN InvalidDate
  ELSE MakeDate(MakeDay(y.num, MonthFromTime(t), DateFromTime(t)), t.ms)

SetUTCMonth(t, m) ==
  IF t = InvalidDate \/ m = NaN THEN InvalidDate
  ELSE MakeDate(MakeDay(YearFromTime(t), m.num, DateFromTime(t)), t.ms)

SetUTCDate(t, d) ==
  IF t = InvalidDate \/ d = NaN THEN InvalidDate
  ELSE MakeDate(MakeDay(YearFromTime(t), MonthFromTime(t), d.num), t.ms)

SetUTCHours(t, h) ==
  IF t = InvalidDate \/ h = NaN THEN InvalidDate
  ELSE MakeDate(t.day, MakeTime(h.num, MinFromTime(t), SecFromTime(t), MsFromTime(t)))

SetUTCMinutes(t, m) ==
  IF t = InvalidDate \/ m = NaN THEN InvalidDate
  ELSE MakeDate(t.day, MakeTime(HourFromTime(t), m.num, SecFromTime(t), MsFromTime(t)))

SetUTCSeconds(t, s) ==
  IF t = InvalidDate \/ s = NaN THEN InvalidDate
  ELSE MakeDate(t.day, MakeTime(HourFromTime(t), MinFromTime(t), s.num, MsFromTime(t)))

SetUTCMilliseconds(t, ms) ==
  IF t = InvalidDate \/ ms = NaN THEN InvalidDate
  ELSE MakeDate(t.day, MakeTime(HourFromTime(t), MinFromTime(t), SecFromTime(t), ms.num))

\* ToIntegerOrInfinity of the rational num/60: truncation toward zero.
TruncSixtieths(num) == IF num >= 0 THEN num \div 60 ELSE -((-num) \div 60)

\* returnDate.setHours(returnDate.getHours() + offset), the offset given in
\* sixtieths of an hour (the code's value is hours + minutes/60).  MakeTime
\* truncates its hour argument to an integer.  The host's zone is taken to
\* have a fixed UTC offset, so the local round trip shifts the time value
\* by the truncated number of hours.
SetHoursFromGetHours(t, offsetSixtieths) ==
  IF t = InvalidDate \/ offsetSixtieths = NaN THEN InvalidDate
  ELSE LET h == TruncSixtieths(HourFromTime(t) * 60 + offsetSixtieths.num)
       IN  MakeDate(t.day, MakeTime(h, MinFromTime(t), SecFromTime(t), MsFromTime(t)))

\* new Date(date.getTime() - days * 1000 * 60 * 60 * 24): the subtrahend is
\* a whole number of days, taken off the day count.
MinusDays(t, days) ==
  IF t = InvalidDate THEN InvalidDate ELSE MakeDate(t.day - days, t.ms)

(***************************************************************************)
(* Strings are sequences of one-character strings.                         *)
(***************************************************************************)
DigitChars == <<"0", "1", "2", "3", "4", "5", "6", "7", "8", "9">>

IsDigit(c) == \E d \in 1 .. 10 : DigitChars[d] = c

DigitVal(c) == (CHOOSE d \in 1 .. 10 : DigitChars[d] = c) - 1

\* isoString.split(/\D+/): the maximal runs of digits between the runs of
\* non-digits; a leading or trailing separator leaves an empty string.
RECURSIVE SplitNonDigits(_, _, _, _, _)
SplitNonDigits(s, i, parts, cur, inSep) ==
  IF i > Len(s) THEN Append(parts, cur)
  ELSE IF IsDigit(s[i]) THEN SplitNonDigits(s, i + 1, parts, Append(cur, s[i]), FALSE)
  ELSE IF inSep THEN SplitNonDigits(s, i + 1, parts, cur, TRUE)
  ELSE SplitNonDigits(s, i + 1, Append(parts, cur), <<>>, TRUE)

Split(s) == SplitNonDigits(s, 1, <<>>, <<>>, FALSE)

RECURSIVE DigitsValue(_, _)
DigitsValue(ds, acc) ==
  IF ds = <<>> THEN acc ELSE DigitsValue(Tail(ds), acc * 10 + DigitVal(Head(ds)))

\* dateParts[i] (0-based): undefined past the end of the array.
Part(dateParts, i) == IF i + 1 <= Len(dateParts) THEN dateParts[i + 1] ELSE Undefined

\* parseInt of a part: NaN for undefined and for the empty string.
ParseInt(part) ==
  IF part = Undefined \/ part = <<>> THEN NaN ELSE Num(DigitsValue(part, 0))

\* Truthiness of a part: undefined and "" are falsy, any other string truthy.
Truthy(part) == part # Undefined /\ part # <<>>

\* isoString.substr(-6, 1).
SubstrMinus6(s) ==
  IF Len(s) = 0 THEN <<>>
  ELSE IF Len(s) >= 6 THEN <<s[Len(s) - 5]>> ELSE <<s[1]>>

\* x - 1 on a parsed number.
MinusOne(x) == IF x = NaN THEN NaN ELSE Num(x.num - 1)

\* The time-zone adjustment of isoStringToDate, in sixtieths of an hour:
\* parseInt(dateParts[7]) + parseInt(dateParts[8]) / 60, negated after '+'.
TimezoneOffsetSixtieths(isoString, dateParts) ==
  IF Truthy(Part(dateParts, 7)) \/ Truthy(Part(dateParts, 8))
  THEN LET mins == IF Truthy(Part(dateParts, 8))
                   THEN ParseInt(Part(dateParts, 8)).num
                   ELSE 0
           hours == ParseInt(Part(dateParts, 7))
           total == IF hours = NaN THEN NaN ELSE Num(hours.num * 60 + mins)
       IN  IF total # NaN /\ SubstrMinus6(isoString) = <<"+">>
           THEN Num(0 - total.num)
           ELSE total
  ELSE Num(0)

\* isoStringToDate: start from the current time `now`, overwrite its UTC
\* fields one at a time from the digit groups (d1 after setUTCFullYear, ...,
\* d7 after setUTCMilliseconds), then shift by the zone.
isoStringToDate(isoString, now) ==
  LET dateParts == Split(isoString)
  IN  CHOOSE returnDate \in
        { SetHoursFromGetHours(d7, TimezoneOffsetSixtieths(isoString, dateParts)) :
          d7 \in { SetUTCMilliseconds(d6, ParseInt(Part(dateParts, 6))) :
          d6 \in { SetUTCSeconds(d5, ParseInt(Part(dateParts, 5))) :
          d5 \in { SetUTCMinutes(d4, ParseInt(Part(dateParts, 4))) :
          d4 \in { SetUTCHours(d3, ParseInt(Part(dateParts, 3))) :
          d3 \in { SetUTCDate(d2, ParseInt(Part(dateParts, 2))) :
          d2 \in { SetUTCMonth(d1, MinusOne(ParseInt(Part(dateParts, 1)))) :
          d1 \in { SetUTCFullYear(now, ParseInt(Part(dateParts, 0))) } } } } } } } } :
        TRUE

(***************************************************************************)
(* Formatting: Date.prototype.toISOString and the ISO inputs.              *)
(***************************************************************************)
\* n as exactly `width` decimal digits (n < 10^width).
RECURSIVE Pad(_, _)
Pad(n, width) ==
  IF width = 0 THEN <<>> ELSE Append(Pad(n \div 10, width - 1), DigitChars[(n % 10) + 1])

RECURSIVE NatToString(_)
NatToString(n) ==
  IF n < 10 THEN <<DigitChars[n + 1]>>
  ELSE Append(NatToString(n \div 10), DigitChars[(n % 10) + 1])

\* String(n) of an integer, as a template literal interpolates it.
NumberToString(n) == IF n < 0 THEN <<"-">> \o NatToString(0 - n) ELSE NatToString(n)

\* "YYYY-MM-DDTHH:mm:ss" of the UTC fields of a time value.
CivilString(t) ==
  Pad(YearFromTime(t), 4) \o <<"-">> \o Pad(MonthFromTime(t) + 1, 2) \o <<"-">>
    \o Pad(DateFromTime(t), 2) \o <<"T">> \o Pad(HourFromTime(t), 2) \o <<":">>
    \o Pad(MinFromTime(t), 2) \o <<":">> \o Pad(SecFromTime(t), 2)

\* date.toISOString(): "YYYY-MM-DDTHH:mm:ss.sssZ" (years 0..9999).
toISOString(t) == CivilString(t) \o <<".">> \o Pad(MsFromTime(t), 3) \o <<"Z">>

(***************************************************************************)
(* The script: constants of the two revisions of the program.              *)
(***************************************************************************)
\* The revisions of the script: src/src/index.ts and the last program of
\* src/unnamed/part_000 (its lines 231-399).
Programs == {"index.ts", "part_000"}

responseBodyOutputFile == "responseOut.json"
dataOutputFile == "dataOut.json"

\* size of the query: 100 in index.ts, 0 in part_000.
QuerySize(prog) == IF prog = "index.ts" THEN 100 ELSE 0

\* The indent JSON.stringify is given for the request body and the data file.
StringifyIndent(prog) == IF prog = "index.ts" THEN 2 ELSE 0

\* main's literal: "2023-01-11T19:22:28+00:000" / "2024-03-11T19:22:28+00:000".
MainIsoString(prog) ==
  (IF prog = "index.ts" THEN <<"2", "0", "2", "3", "-", "0", "1">>
                        ELSE <<"2", "0", "2", "4", "-", "0", "3">>)
    \o <<"-", "1", "1", "T", "1", "9", ":", "2", "2", ":", "2", "8",
         "+", "0", "0", ":", "0", "0", "0">>

\* The interval main passes; it passes no offset.
MainInterval(prog) == IF prog = "index.ts" THEN "1h" ELSE "1d"

\* The length of main's range in days: 1000 * 60 * 60 * 24 [* 30] ms.
MainRangeDays(prog) == IF prog = "index.ts" THEN 1 ELSE 30

(***************************************************************************)
(* Bounds of the environment: what the upstream service may answer, and    *)
(* the arguments graccQuery is called with.                                *)
(***************************************************************************)
MaxBuckets == 2
NjobsValues == {0, 1}
CoreHoursValues == {0, 1}
DocCounts == {0, 2}
TookValues == {7}
\* hits.hits[i]._source.CoreHours of an answer to a query of the given size.
HitLists(size) == IF size = 0 THEN {<<>>} ELSE {<<3, 4>>}

\* The <<interval, offset>> arguments of a call: main's ("1h" or "1d", no
\* offset), and others, an interval the service does not know among them.
CallArguments ==
  { <<"1h", Undefined>>, <<"1d", Undefined>>, <<"1h", Num(0)>>,
    <<"bogus", Num(0)>>, <<"bogus", Num(30)>> }

\* The instants at which main may run (the value of new Date()).
Nows ==
  { MakeDate(MakeDay(2024, 1, 29), MakeTime(23, 59, 59, 999)),
    MakeDate(MakeDay(2026, 4, 31), MakeTime(8, 0, 0, 1)) }

\* A date histogram's buckets come in key order: the i-th bucket of an
\* answer has the i-th key.
BucketKey(i) == <<"bucket">> \o NatToString(i)

BucketValues == [doc_count : DocCounts, Njobs : NjobsValues, CoreHours : CoreHoursValues]

BucketLists ==
  { [ i \in 1 .. Len(vs) |->
        [ key_as_string |-> BucketKey(i), doc_count |-> vs[i].doc_count,
          Njobs |-> vs[i].Njobs, CoreHours |-> vs[i].CoreHours ] ] :
    vs \in UNION {[1 .. n -> BucketValues] : n \in 0 .. MaxBuckets} }

\* A response body of the form of Root (response.d.ts): took, hits.hits[i].
\* _source.CoreHours, and aggregations.EndTime.buckets.
Roots(size) == [took : TookValues, hits : HitLists(size), buckets : BucketLists]

\* An OK response carries a Root; a failed one carries JSON, text that is
\* not JSON (a gateway's error page), or no body at all.
Responses(size) ==
  { [ok |-> TRUE, kind |-> "json", payload |-> r] : r \in Roots(size) }
    \cup { [ok |-> FALSE, kind |-> k, payload |-> Null] :
             k \in {"json", "text", "empty"} }

NoResponse == [none |-> TRUE]
NoBody == [nobody |-> TRUE]
NoResult == [noresult |-> TRUE]
Pending == [pending |-> TRUE]
\* What a file holds before the script runs, and after a write that failed
\* part-way.
OldContent == [old |-> TRUE]
Truncated == [truncated |-> TRUE]

VARIABLES
  program,    \* which revision runs
  interval,   \* graccQuery's interval argument
  offset,     \* graccQuery's offset argument (Undefined when omitted)
  mainPc,     \* main: "start", "call", "await", "done", "rejected"
  pc,         \* graccQuery's position
  start,      \* main's start
  end,        \* main's end
  startStr,   \* graccQuery's startStr
  endStr,     \* graccQuery's endStr
  requests,   \* the bodies handed to fetch, in order
  res,        \* the response fetch resolved with
  body,       \* the parsed Root
  result,     \* the crafted AnalysisResult
  returned,   \* what graccQuery's promise resolved with
  writes,     \* the fs.writeFile calls issued, in order, with their status
  files,      \* the content of the two output files
  console,    \* console.error / console.log calls, in order
  isoInput,   \* isoStringToDate harness: the instant and form of the input
  isoString,  \* isoStringToDate harness: the argument
  now,        \* isoStringToDate harness: the value of new Date()
  parsed      \* isoStringToDate harness: the Date returned

vars ==
  <<program, interval, offset, mainPc, pc, start, end, startStr, endStr,
    requests, res, body, result, returned, writes, files, console, isoInput,
    isoString, now, parsed>>

scriptVars ==
  <<program, interval, offset, mainPc, pc, start, end, startStr, endStr,
    requests, res, body, result, returned, writes, files, console>>

isoVars == <<isoInput, isoString, now, parsed>>

(***************************************************************************)
(* graccQuery: the request.                                                *)
(***************************************************************************)
\* Mutant of offsetStr: the test is `offset ?` instead of `offset != null`,
\* so an offset of 0 counts as absent.
offsetStrTruthy(off) ==
  IF off # Undefined /\ off # Null /\ off # Num(0)
  THEN <<"-">> \o NumberToString(off.num) \o <<"s">>
  ELSE Null

\* const offsetStr = offset != null ? `-${offset}s` : null;
offsetStr(off) ==
  IF off # Undefined /\ off # Null
  THEN <<"-">> \o NumberToString(off.num) \o <<"s">>
  ELSE Null

\* offsetStr ?? undefined
NullishUndefined(v) == IF v = Null \/ v = Undefined THEN Undefined ELSE v

\* The query object: the range and term filters, and the date histogram
\* with its two sum metrics.
query(prog, fromStr, toStr, intv, off) ==
  [ size |-> QuerySize(prog),
    filter |-> [ gte |-> fromStr, lt |-> toStr, ResourceType |-> "Batch",
                 must_not_SiteName |-> {"NONE", "Generic", "Obsolete"},
                 must_not_VOName |-> {"Unknown", "unknown", "other"} ],
    date_histogram |-> [ field |-> "EndTime", fixed_interval |-> intv,
                         offset |-> NullishUndefined(offsetStr(off)),
                         extended_bounds |-> [min |-> fromStr, max |-> toStr] ],
    aggs |-> [CoreHours |-> "CoreHours", Njobs |-> "Njobs"] ]

\* JSON.stringify of the query: a property whose value is undefined is left
\* out of the text.  A JSON text is modelled by the value it denotes and the
\* indent it was written with.
JSONStringifyQuery(q, indent) ==
  LET dh == q.date_histogram
      written == IF dh.offset = Undefined
                 THEN [ field |-> dh.field, fixed_interval |-> dh.fixed_interval,
                        extended_bounds |-> dh.extended_bounds ]
                 ELSE dh
  IN  [json |-> [q EXCEPT !.date_histogram = written], indent |-> indent]

\* JSON.stringify of a value without undefined properties or non-finite
\* numbers (the Root, the result).
JSONStringify(v, indent) == [json |-> v, indent |-> indent]

(***************************************************************************)
(* graccQuery: the reshaping of the response.                              *)
(***************************************************************************)
\* a || b on numbers: b when a is 0 (or NaN), else a.
JsOr(a, b) == IF a # 0 THEN a ELSE b

\* Mutant of ReduceNjobs: the fold adds doc_count instead of Njobs.value.
RECURSIVE ReduceNjobsDocCount(_, _)
ReduceNjobsDocCount(buckets, acc) ==
  IF buckets = <<>> THEN acc
  ELSE ReduceNjobsDocCount(Tail(buckets), acc + Head(buckets).doc_count)

\* buckets.reduce((acc, bucket) => acc + bucket.Njobs.value, 0)
RECURSIVE ReduceNjobs(_, _)
ReduceNjobs(buckets, acc) ==
  IF buckets = <<>> THEN acc
  ELSE ReduceNjobs(Tail(buckets), acc + Head(buckets).Njobs)

\* buckets.reduce((acc, bucket) => acc + bucket.CoreHours.value || bucket.doc_count, 0):
\* + binds tighter than ||, so each step is (acc + value) || doc_count.
RECURSIVE ReduceCpuHours(_, _)
ReduceCpuHours(buckets, acc) ==
  IF buckets = <<>> THEN acc
  ELSE ReduceCpuHours(Tail(buckets),
                      JsOr(acc + Head(buckets).CoreHours, Head(buckets).doc_count))

\* body.hits.hits.reduce((acc, hit) => acc + hit._source.CoreHours, 0)
RECURSIVE ReduceHits(_, _)
ReduceHits(hits, acc) ==
  IF hits = <<>> THEN acc ELSE ReduceHits(Tail(hits), acc + Head(hits))

\* Mutant of MapDataPoints: nJobs and cpuHours take each other's value.
MapDataPointsSwapped(buckets) ==
  [ i \in 1 .. Len(buckets) |->
      [ timestamp |-> buckets[i].key_as_string,
        nJobs |-> buckets[i].CoreHours,
        cpuHours |-> buckets[i].Njobs ] ]

\* buckets.map((bucket) => ({timestamp, nJobs, cpuHours}))
MapDataPoints(buckets) ==
  [ i \in 1 .. Len(buckets) |->
      [ timestamp |-> buckets[i].key_as_string,
        nJobs |-> buckets[i].Njobs,
        cpuHours |-> buckets[i].CoreHours ] ]

\* The result object; part_000 also records the range.
CraftResult(prog, root, fromStr, toStr) ==
  LET buckets == root.buckets
      sums == [ took |-> root.took,
                sumJobs |-> ReduceNjobs(buckets, 0),
                sumCpuHours |-> ReduceCpuHours(buckets, 0),
                dataPoints |-> MapDataPoints(buckets) ]
  IN  IF prog = "index.ts" THEN sums
      ELSE [ took |-> sums.took, startTime |-> fromStr, endTime |-> toStr,
             sumJobs |-> sums.sumJobs, sumCpuHours |-> sums.sumCpuHours,
             dataPoints |-> sums.dataPoints ]

(***************************************************************************)
(* The script as a state machine.                                          *)
(***************************************************************************)
Log(stream, msg, value) == [stream |-> stream, msg |-> msg, value |-> value]

Init ==
  /\ program \in Programs
  /\ \E args \in CallArguments : interval = args[1] /\ offset = args[2]
  /\ mainPc = "start"
  /\ pc = "idle"
  /\ start = InvalidDate
  /\ end = InvalidDate
  /\ startStr = <<>>
  /\ endStr = <<>>
  /\ requests = <<>>
  /\ res = NoResponse
  /\ body = NoBody
  /\ result = NoResult
  /\ returned = Pending
  /\ writes = <<>>
  /\ files = [f \in {responseBodyOutputFile, dataOutputFile} |-> OldContent]
  /\ console = <<>>
  /\ isoInput = Null
  /\ isoString = <<>>
  /\ now = InvalidDate
  /\ parsed = Pending

\* main, up to the call: end from the literal, start one range earlier.
MainStart ==
  /\ mainPc = "start"
  /\ \E n \in Nows :
       \E e \in {isoStringToDate(MainIsoString(program), n)} :
         /\ end' = e
         /\ start' = MinusDays(e, MainRangeDays(program))
  /\ mainPc' = "call"
  /\ UNCHANGED <<program, interval, offset, pc, startStr, endStr, requests,
                 res, body, result, returned, writes, files, console>>
  /\ UNCHANGED isoVars

\* graccQuery up to its first await: build the query and hand it to fetch.
GraccQueryCall ==
  /\ mainPc = "call"
  /\ pc = "idle"
  /\ \E s \in {toISOString(start)}, e \in {toISOString(end)} :
       /\ startStr' = s
       /\ endStr' = e
       /\ requests' = Append(requests,
            JSONStringifyQuery(query(program, s, e, interval, offset),
                               StringifyIndent(program)))
  /\ pc' = "fetch"
  /\ mainPc' = "await"
  /\ UNCHANGED <<program, interval, offset, start, end, res, body, result,
                 returned, writes, files, console>>
  /\ UNCHANGED isoVars

\* fetch resolves with a response.  A failed response is logged; index.ts
\* then awaits res.json(), part_000 awaits res.text() unless res.body is
\* null, in which case it returns null at once.
FetchResolve ==
  /\ pc = "fetch"
  /\ \E r \in Responses(QuerySize(program)) :
       /\ res' = r
       /\ IF r.ok
          THEN /\ pc' = "body"
               /\ UNCHANGED <<console, returned>>
          ELSE /\ console' = Append(console, Log("error", "GRACC query failed", Null))
               /\ IF program = "part_000" /\ r.kind = "empty"
                  THEN pc' = "returned" /\ returned' = Null
                  ELSE pc' = "errorBody" /\ UNCHANGED returned
  /\ UNCHANGED <<program, interval, offset, mainPc, start, end, startStr,
                 endStr, requests, body, result, writes, files>>
  /\ UNCHANGED isoVars

\* fetch rejects (the network failed): nothing catches it in graccQuery.
FetchReject ==
  /\ pc = "fetch"
  /\ pc' = "rejected"
  /\ UNCHANGED <<program, interval, offset, mainPc, start, end, startStr,
                 endStr, requests, res, body, result, returned, writes, files,
                 console>>
  /\ UNCHANGED isoVars

\* Mutant of ErrorBody: the failed response's body is also dumped to the
\* response file before null is returned.
ErrorBodyDumped ==
  /\ pc = "errorBody"
  /\ console' = Append(console, Log("error", "body", Null))
  /\ writes' = Append(writes, [file |-> responseBodyOutputFile,
                               data |-> [json |-> res.payload, indent |-> 0],
                               status |-> "inflight"])
  /\ pc' = "returned"
  /\ returned' = Null
  /\ UNCHANGED <<program, interval, offset, mainPc, start, end, startStr, endStr,
                 requests, res, body, result, files>>
  /\ UNCHANGED isoVars

\* The body of a failed response arrives.  index.ts: console.log(await
\* res.json()), and res.json() rejects when the body is not JSON.
\* part_000: console.error(await res.text()).
ErrorBody ==
  /\ pc = "errorBody"
  /\ IF program = "index.ts"
     THEN IF res.kind = "json"
          THEN /\ console' = Append(console, Log("log", "body", Null))
               /\ pc' = "returned"
               /\ returned' = Null
          ELSE /\ pc' = "rejected"
               /\ UNCHANGED <<console, returned>>
     ELSE /\ console' = Append(console, Log("error", "body", Null))
          /\ pc' = "returned"
          /\ returned' = Null
  /\ UNCHANGED <<program, interval, offset, mainPc, start, end, startStr,
                 endStr, requests, res, body, result, writes, files>>
  /\ UNCHANGED isoVars

\* const body = (await res.json()) as Root
OkBody ==
  /\ pc = "body"
  /\ body' = res.payload
  /\ pc' = "writeResponse"
  /\ UNCHANGED <<program, interval, offset, mainPc, start, end, startStr,
                 endStr, requests, res, result, returned, writes, files,
                 console>>
  /\ UNCHANGED isoVars

\* Mutant of IssueWrite: every write goes to the data file.
IssueWriteDataFile(file, data) ==
  writes' = Append(writes, [file |-> dataOutputFile, data |-> data, status |-> "inflight"])

\* fs.writeFile(file, data, callback): the write is queued and runs on its own.
IssueWrite(file, data) ==
  writes' = Append(writes, [file |-> file, data |-> data, status |-> "inflight"])

\* fs.writeFile(responseBodyOutputFile, JSON.stringify(body), ...)
WriteResponse ==
  /\ pc = "writeResponse"
  /\ IssueWrite(responseBodyOutputFile, JSONStringify(body, 0))
  /\ pc' = IF program = "index.ts" THEN "totalJobs" ELSE "craft"
  /\ UNCHANGED <<program, interval, offset, mainPc, start, end, startStr,
                 endStr, requests, res, body, result, returned, files,
                 console>>
  /\ UNCHANGED isoVars

\* index.ts only: console.log(totalJobs)
TotalJobs ==
  /\ pc = "totalJobs"
  /\ console' = Append(console, Log("log", "totalJobs", Num(ReduceHits(body.hits, 0))))
  /\ pc' = "craft"
  /\ UNCHANGED <<program, interval, offset, mainPc, start, end, startStr,
                 endStr, requests, res, body, result, returned, writes,
                 files>>
  /\ UNCHANGED isoVars

\* const result = {...}
Craft ==
  /\ pc = "craft"
  /\ result' = CraftResult(program, body, startStr, endStr)
  /\ pc' = "writeData"
  /\ UNCHANGED <<program, interval, offset, mainPc, start, end, startStr,
                 endStr, requests, res, body, returned, writes, files,
                 console>>
  /\ UNCHANGED isoVars

\* fs.writeFile(dataOutputFile, JSON.stringify(result, ...), ...)
WriteData ==
  /\ pc = "writeData"
  /\ IssueWrite(dataOutputFile, JSONStringify(result, StringifyIndent(program)))
  /\ pc' = "return"
  /\ UNCHANGED <<program, interval, offset, mainPc, start, end, startStr,
                 endStr, requests, res, body, result, returned, files,
                 console>>
  /\ UNCHANGED isoVars

\* return result
Return ==
  /\ pc = "return"
  /\ returned' = result
  /\ pc' = "returned"
  /\ UNCHANGED <<program, interval, offset, mainPc, start, end, startStr,
                 endStr, requests, res, body, result, writes, files, console>>
  /\ UNCHANGED isoVars

\* main resumes: console.log(result)
MainLog ==
  /\ mainPc = "await"
  /\ pc = "returned"
  /\ console' = Append(console, Log("log", "result", returned))
  /\ mainPc' = "done"
  /\ UNCHANGED <<program, interval, offset, pc, start, end, startStr, endStr,
                 requests, res, body, result, returned, writes, files>>
  /\ UNCHANGED isoVars

\* graccQuery rejected: main's await throws, and main() is not caught.
MainReject ==
  /\ mainPc = "await"
  /\ pc = "rejected"
  /\ mainPc' = "rejected"
  /\ UNCHANGED <<program, interval, offset, pc, start, end, startStr, endStr,
                 requests, res, body, result, returned, writes, files,
                 console>>
  /\ UNCHANGED isoVars

\* The file system carries out write i, at any time after it was issued:
\* it succeeds and the file holds the data, or it fails and the file is as
\* it was or cut short.
WriteWork(i) ==
  /\ writes[i].status = "inflight"
  /\ \/ /\ writes' = [writes EXCEPT ![i].status = "ok"]
        /\ files' = [files EXCEPT ![writes[i].file] = writes[i].data]
     \/ /\ writes' = [writes EXCEPT ![i].status = "err"]
        /\ \E c \in {files[writes[i].file], Truncated} :
             files' = [files EXCEPT ![writes[i].file] = c]
  /\ UNCHANGED <<program, interval, offset, mainPc, pc, start, end, startStr,
                 endStr, requests, res, body, result, returned, console>>
  /\ UNCHANGED isoVars

\* Mutant of WriteCallback: a failed write is issued again instead of being
\* reported.
WriteCallbackRetry(i) ==
  /\ writes[i].status \in {"ok", "err"}
  /\ mainPc = "done"
  /\ writes' = [writes EXCEPT ![i].status =
                  IF writes[i].status = "err" THEN "inflight" ELSE "called"]
  /\ UNCHANGED <<program, interval, offset, mainPc, pc, start, end, startStr, endStr,
                 requests, res, body, result, returned, files, console>>
  /\ UNCHANGED isoVars

\* Mutant of WriteCallback: the callback throws on an error, which ends the
\* process: main is over and the writes still in flight are dropped.
WriteCallbackThrows(i) ==
  /\ writes[i].status \in {"ok", "err"}
  /\ mainPc = "done"
  /\ IF writes[i].status = "err"
     THEN /\ writes' = [j \in 1 .. Len(writes) |->
                          IF j = i \/ writes[j].status = "inflight"
                          THEN [writes[j] EXCEPT !.status = "called"]
                          ELSE writes[j]]
          /\ console' = Append(console, Log("error", "uncaught", Null))
     ELSE /\ writes' = [writes EXCEPT ![i].status = "called"]
          /\ console' = console
  /\ UNCHANGED <<program, interval, offset, mainPc, pc, start, end, startStr, endStr,
                 requests, res, body, result, returned, files>>
  /\ UNCHANGED isoVars

\* The callback of write i: (err) => { if (err) console.error(...) }.  The
\* event loop runs it once main's synchronous code and microtasks are over.
WriteCallback(i) ==
  /\ writes[i].status \in {"ok", "err"}
  /\ mainPc = "done"
  /\ writes' = [writes EXCEPT ![i].status = "called"]
  /\ console' =
       IF writes[i].status = "err"
       THEN Append(console,
              Log("error",
                  IF writes[i].file = responseBodyOutputFile
                  THEN "failed to write to response body output file"
                  ELSE "failed to write to data output file",
                  Null))
       ELSE console
  /\ UNCHANGED <<program, interval, offset, mainPc, pc, start, end, startStr,
                 endStr, requests, res, body, result, returned, files>>
  /\ UNCHANGED isoVars

Next ==
  \/ MainStart
  \/ GraccQueryCall
  \/ FetchResolve
  \/ FetchReject
  \/ ErrorBody
  \/ OkBody
  \/ WriteResponse
  \/ TotalJobs
  \/ Craft
  \/ WriteData
  \/ Return
  \/ MainLog
  \/ MainReject
  \/ \E i \in 1 .. Len(writes) : WriteWork(i)
  \/ \E i \in 1 .. Len(writes) : WriteCallback(i)

Spec == Init /\ [][Next]_vars

(***************************************************************************)
(* isoStringToDate on its own: the function applied to ISO strings of the  *)
(* forms its comment names, at different current times.                    *)
(***************************************************************************)
Civil(y, m, d, h, mi, sec, ms) == MakeDate(MakeDay(y, m - 1, d), MakeTime(h, mi, sec, ms))

\* The date and time fields written in the string (as a time value).
IsoCivils ==
  { Civil(2019, 1, 18, 0, 0, 0, 0), Civil(2019, 1, 17, 17, 0, 0, 0),
    Civil(2019, 1, 18, 7, 0, 0, 0), Civil(2019, 2, 15, 10, 20, 30, 456),
    Civil(2023, 4, 30, 23, 59, 59, 999) }

\* The zone designator: "Z", or a sign with hh:mm.
IsoZones ==
  { [sign |-> "Z", hh |-> 0, mm |-> 0] }
    \cup { [sign |-> sg, hh |-> z[1], mm |-> z[2]] :
             sg \in {"+", "-"}, z \in {<<7, 0>>, <<5, 30>>, <<0, 0>>} }

IsoInputs == [civil : IsoCivils, zone : IsoZones]

\* The current times the function is called at.
IsoNows ==
  { Civil(2019, 1, 10, 12, 0, 0, 0), Civil(2024, 2, 29, 23, 59, 59, 999),
    Civil(2026, 5, 31, 8, 0, 0, 1) }

\* "YYYY-MM-DDTHH:mm:ss.sss" followed by "Z" or "+hh:mm" / "-hh:mm".
FormatIso(in) ==
  CivilString(in.civil) \o <<".">> \o Pad(MsFromTime(in.civil), 3)
    \o (IF in.zone.sign = "Z" THEN <<"Z">>
        ELSE <<in.zone.sign>> \o Pad(in.zone.hh, 2) \o <<":">> \o Pad(in.zone.mm, 2))

\* The instant an ISO string denotes: its fields, less the zone's offset.
IsoInstant(in) ==
  LET minutes == in.zone.hh * 60 + in.zone.mm
      shift == IF in.zone.sign = "-" THEN minutes ELSE 0 - minutes
  IN  MakeDate(in.civil.day, in.civil.ms + shift * 60000)

IsoInit ==
  /\ isoInput \in IsoInputs
  /\ isoString = FormatIso(isoInput)
  /\ now \in IsoNows
  /\ parsed = Pending
  /\ program = "index.ts"
  /\ interval = "1h"
  /\ offset = Undefined
  /\ mainPc = "start"
  /\ pc = "idle"
  /\ start = InvalidDate
  /\ end = InvalidDate
  /\ startStr = <<>>
  /\ endStr = <<>>
  /\ requests = <<>>
  /\ res = NoResponse
  /\ body = NoBody
  /\ result = NoResult
  /\ returned = Pending
  /\ writes = <<>>
  /\ files = [f \in {responseBodyOutputFile, dataOutputFile} |-> OldContent]
  /\ console = <<>>

\* parsed = isoStringToDate(isoString), called at time now.
IsoCall ==
  /\ parsed = Pending
  /\ parsed' = isoStringToDate(isoString, now)
  /\ UNCHANGED <<isoInput, isoString, now>>
  /\ UNCHANGED scriptVars

IsoNext == IsoCall

SpecIso == IsoInit /\ [][IsoNext]_vars

\* C10: isoStringToDate returns the instant its argument denotes, whatever
\* the zone designator of the string and whatever the current time.
IsoReturnsInstant == parsed # Pending => parsed = IsoInstant(isoInput)

(***************************************************************************)
(* Properties of the script.                                               *)
(***************************************************************************)
\* The response was received and its status is not OK / is OK.
Failed == res # NoResponse /\ ~res.ok
Succeeded == res # NoResponse /\ res.ok

\* The buckets the upstream service sent.
UpstreamBuckets == res.payload.buckets

\* The arithmetic sum of the first n numbers of a sequence.
RECURSIVE SumTo(_, _)
SumTo(xs, n) == IF n = 0 THEN 0 ELSE SumTo(xs, n - 1) + xs[n]

Sum(xs) == SumTo(xs, Len(xs))

CoreHoursOf(bs) == [i \in 1 .. Len(bs) |-> bs[i].CoreHours]
NjobsOf(bs) == [i \in 1 .. Len(bs) |-> bs[i].Njobs]
nJobsOf(ps) == [i \in 1 .. Len(ps) |-> ps[i].nJobs]

\* C1: once a response that is not OK has arrived, graccQuery has logged the
\* failure and either still reads the body or has returned null; it never
\* rejects and never returns a result, whatever the body of the response.
FailedResponseReturnsNull ==
  Failed =>
    /\ pc \in {"errorBody", "returned"}
    /\ pc = "returned" => returned = Null
    /\ \E k \in 1 .. Len(console) : console[k].msg = "GRACC query failed"

\* C2: after an OK response the returned sumCpuHours is the sum of
\* CoreHours.value over the buckets; doc_count does not contribute.
SumCpuHoursIsSum ==
  (Succeeded /\ pc = "returned") =>
    returned.sumCpuHours = Sum(CoreHoursOf(UpstreamBuckets))

\* C3: after an OK response the returned sumJobs is the sum of Njobs.value
\* over the buckets (0 for none), which is the sum of nJobs over the
\* returned dataPoints.
SumJobsIsSum ==
  (Succeeded /\ pc = "returned") =>
    /\ returned.sumJobs = Sum(NjobsOf(UpstreamBuckets))
    /\ returned.sumJobs = Sum(nJobsOf(returned.dataPoints))
    /\ UpstreamBuckets = <<>> => returned.sumJobs = 0

SumJobsWitness ==
  /\ Succeeded
  /\ pc = "returned"
  /\ Len(UpstreamBuckets) = MaxBuckets
  /\ \A i \in 1 .. MaxBuckets :
       UpstreamBuckets[i].Njobs = 1 /\ UpstreamBuckets[i].doc_count = 0
  /\ returned.sumJobs = MaxBuckets

\* C4: after an OK response dataPoints has one entry per bucket, in the
\* order of the response, entry i carrying bucket i's key_as_string,
\* Njobs.value and CoreHours.value.
DataPointsMirrorBuckets ==
  (Succeeded /\ pc = "returned") =>
    /\ Len(returned.dataPoints) = Len(UpstreamBuckets)
    /\ \A i \in 1 .. Len(UpstreamBuckets) :
         /\ returned.dataPoints[i].timestamp = UpstreamBuckets[i].key_as_string
         /\ returned.dataPoints[i].nJobs = UpstreamBuckets[i].Njobs
         /\ returned.dataPoints[i].cpuHours = UpstreamBuckets[i].CoreHours

DataPointsWitness ==
  /\ Succeeded
  /\ pc = "returned"
  /\ Len(returned.dataPoints) = MaxBuckets
  /\ returned.dataPoints[1].nJobs = 0
  /\ returned.dataPoints[1].cpuHours = 1
  /\ returned.dataPoints[MaxBuckets].nJobs = 1
  /\ returned.dataPoints[MaxBuckets].cpuHours = 0

\* C5: in a run with an OK response graccQuery issues exactly two writes
\* before it returns, the raw response to the response file first and the
\* summary to the data file second, and the summary written is the value
\* returned; no further write is ever issued.
TwoWritesBeforeReturn ==
  /\ Len(writes) <= 2
  /\ (Succeeded /\ pc = "returned") =>
       /\ Len(writes) = 2
       /\ writes[1].file = responseBodyOutputFile
       /\ writes[1].data.json = res.payload
       /\ writes[2].file = dataOutputFile
       /\ writes[2].data.json = returned
  /\ Len(writes) = 1 => writes[1].file = responseBodyOutputFile

TwoWritesWitness ==
  /\ Succeeded
  /\ pc = "returned"
  /\ mainPc = "await"
  /\ Len(writes) = 2
  /\ Len(returned.dataPoints) = MaxBuckets

\* C7: the request's date histogram has fixed_interval equal to the interval
\* argument, and an offset field exactly when an offset argument was given
\* (0 included), whose text is "-", the number, "s".
IntervalOffsetPassThrough ==
  /\ Len(requests) >= 1 =>
       LET dh == requests[1].json.date_histogram
       IN  /\ dh.fixed_interval = interval
           /\ ("offset" \in DOMAIN dh) <=> (offset # Undefined)
           /\ offset # Undefined =>
                dh.offset = <<"-">> \o NumberToString(offset.num) \o <<"s">>

PassThroughWitness ==
  /\ Len(requests) = 1
  /\ offset = Num(0)
  /\ interval = "bogus"
  /\ requests[1].json.date_histogram.offset = <<"-", "0", "s">>
  /\ requests[1].json.date_histogram.fixed_interval = "bogus"

\* C8: graccQuery sends one request per invocation and never another; when
\* the response is not OK no write is issued and both files are as before.
FailedResponseHasNoEffect ==
  /\ Len(requests) = (IF pc = "idle" THEN 0 ELSE 1)
  /\ Failed =>
       /\ writes = <<>>
       /\ \A f \in DOMAIN files : files[f] = OldContent

FailedNoEffectWitness ==
  /\ Failed
  /\ mainPc = "done"
  /\ returned = Null
  /\ Len(requests) = 1

\* Main has finished (it returned, or its await threw), graccQuery has
\* settled, and every write issued has had its callback run.
Terminated ==
  /\ mainPc \in {"done", "rejected"}
  /\ pc \in {"returned", "rejected"}
  /\ \A i \in 1 .. Len(writes) : writes[i].status = "called"

\* The script as main runs it: graccQuery(start, end, "1h") or (.., "1d").
MainInit == Init /\ interval = MainInterval(program) /\ offset = Undefined

\* The event loop and the file system are fair: a step that stays possible
\* (the response, a write, a callback, the next statement) is taken.
FairSpec == MainInit /\ [][Next]_vars /\ WF_vars(Next)

\* C6: every run terminates: eventually main has finished and no request
\* or write callback is pending, whatever the response and the outcome of
\* each write.
EventuallyTerminated == <>[]Terminated

TerminatedWitness ==
  /\ Terminated
  /\ Succeeded
  /\ Len(writes) = 2
  /\ \E k \in 1 .. Len(console) :
       console[k].msg = "failed to write to data output file"

\* C9: the writes are fire-and-forget and independent.  The value returned
\* is the summary of the response and never changes afterwards; a step of
\* one write (its outcome, its callback) leaves the other write, the
\* returned value and the program's position alone; a failed write only
\* adds its error message to the console; and a write in flight can be
\* carried out whatever became of the other.
WritesFireAndForget ==
  /\ [][ /\ returned # Pending => returned' = returned
         /\ (Succeeded' /\ pc' = "returned") =>
              returned' = CraftResult(program', res'.payload, startStr', endStr')
         /\ \A i \in 1 .. Len(writes) :
              writes'[i].status # writes[i].status =>
                /\ \A j \in 1 .. Len(writes) : j # i => writes'[j] = writes[j]
                /\ <<returned, result, pc, mainPc>>' = <<returned, result, pc, mainPc>>
                /\ console' =
                     IF writes[i].status = "err" /\ writes'[i].status = "called"
                     THEN Append(console,
                            Log("error",
                                IF i = 1
                                THEN "failed to write to response body output file"
                                ELSE "failed to write to data output file",
                                Null))
                     ELSE console
       ]_vars
  /\ [](\A i \in 1 .. Len(writes) :
          writes[i].status = "inflight" => ENABLED WriteWork(i))

WritesWitness ==
  /\ mainPc = "done"
  /\ Len(writes) = 2
  /\ writes[1].status = "called"
  /\ files[responseBodyOutputFile] = Truncated
  /\ writes[2].status = "ok"
  /\ files[dataOutputFile] = writes[2].data
  /\ console[Len(console)].msg = "failed to write to response body output file"
  /\ console[Len(console) - 1].value = returned

====
